---- MODULE Spec2Model ----
(***************************************************************************)
(* A model of the WinCC Unified GraphQL client library (c/src):            *)
(* wincc_unified.c (session handling, request building, response mapping)  *)
(* over graphql_client.c (the HTTP transport and its header list).         *)
(*                                                                         *)
(* C pointers are modelled as sequences of length 0 or 1: NULL is <<>> and *)
(* a pointer to x is <<x>>.  A parsed cJSON item is a record with a "type" *)
(* field; cJSON_GetObjectItem and friends are the operators below.         *)
(***************************************************************************)
EXTENDS Integers, Sequences, FiniteSets, TLC

\* ------------------------------------------------------------------ bounds

\* API calls made on the client handle in one behaviour.
MaxCalls == 3

\* Invocations of write_callback in one transfer.
MaxChunks == 3

\* ---------------------------------------------------------------- pointers

NULL == <<>>

Ptr(x) == <<x>>

Deref(p) == p[1]

\* ------------------------------------------------------------------- cJSON

JString(s) == [type |-> "String", valuestring |-> s]

JNumber(n) == [type |-> "Number", valuedouble |-> n]

JBool(b) == [type |-> IF b THEN "True" ELSE "False"]

JObject(fields) == [type |-> "Object", fields |-> fields]

JArray(elems) == [type |-> "Array", elems |-> elems]

\* The empty object {}: a function with an empty domain.
NoFields == [k \in {} |-> 0]

\* cJSON_GetObjectItem: NULL for a NULL object, for an item that is no object
\* and for a missing key.
cJSON_GetObjectItem(p, key) ==
    IF p = NULL THEN NULL
    ELSE IF Deref(p).type = "Object" /\ key \in DOMAIN Deref(p).fields
         THEN Ptr(Deref(p).fields[key])
         ELSE NULL

\* cJSON_GetArraySize: the number of children.
cJSON_GetArraySize(p) ==
    IF p = NULL THEN 0
    ELSE IF Deref(p).type = "Array" THEN Len(Deref(p).elems)
    ELSE IF Deref(p).type = "Object" THEN Cardinality(DOMAIN Deref(p).fields)
    ELSE 0

\* cJSON_GetArrayItem, 1-based here (index i of the C code is i+1).
cJSON_GetArrayItem(p, i) ==
    IF p # NULL /\ Deref(p).type = "Array" /\ i \in 1..Len(Deref(p).elems)
    THEN Ptr(Deref(p).elems[i])
    ELSE NULL

cJSON_IsString(p) == p # NULL /\ Deref(p).type = "String"

cJSON_IsNumber(p) == p # NULL /\ Deref(p).type = "Number"

cJSON_IsBool(p) == p # NULL /\ Deref(p).type \in {"True", "False"}

cJSON_IsTrue(p) == p # NULL /\ Deref(p).type = "True"

\* --------------------------------------------------------------- transport

\* A response body: text cJSON_Parse rejects, or text it parses to an item.
BadBody == [valid |-> FALSE]

Body(json) == [valid |-> TRUE, json |-> json]

\* What graphql_execute returns: NULL when curl_easy_perform fails, else a
\* graphql_response_t holding the body.
TransportFail == NULL

Response(body) == Ptr([json_string |-> body])

\* cJSON_Parse of a response's json_string.
cJSON_Parse(body) == IF body.valid THEN Ptr(body.json) ELSE NULL

\* The header graphql_client_new installs.
ContentType == [name |-> "Content-Type", value |-> "application/json"]

\* graphql_client_set_header's "%s: %s" line, kept as its two parts.
Header(name, value) == [name |-> name, value |-> value]

\* wincc_connect's "Bearer %s".
Bearer(t) == <<"Bearer", t>>

\* wincc_error_t
Error(code, desc) == [error_code |-> code, description |-> desc]

\* The text graphql_execute posts: {"query":"%s","variables":%s} when it is
\* given a variables text that is not empty, {"query":"%s"} when it is given
\* none.  Texts are sequences of characters; the query document, which in no
\* operation holds a character that would end the string it is put in, is
\* kept as one symbol named after the operation.
graphql_body(query, variables) ==
    IF variables # NULL /\ Len(Deref(variables)) > 0
    THEN <<"{", "\"", "q", "u", "e", "r", "y", "\"", ":", "\"", query, "\"", ",",
           "\"", "v", "a", "r", "i", "a", "b", "l", "e", "s", "\"", ":">>
         \o Deref(variables) \o <<"}">>
    ELSE <<"{", "\"", "q", "u", "e", "r", "y", "\"", ":", "\"", query, "\"", "}">>

\* A transport that posts again when curl_easy_perform fails: the variant C15
\* is tested against.
graphql_execute_retry(request, response) ==
    IF response = NULL THEN <<request, request>> ELSE <<request>>

\* The requests one graphql_execute hands to curl_easy_perform for the answer
\* it gets: the one request, once.
graphql_execute(request, response) == <<request>>

\* What snprintf(buffer, size, ...) leaves in the buffer of the text it was
\* asked to write: its first size-1 characters.
snprintf(size, text) == IF Len(text) > size - 1 THEN SubSeq(text, 1, size - 1) ELSE text

\* A strcat that writes past the end of its malloc'ed block is undefined: the
\* call goes on as if the block had been large enough (the bytes land in the
\* allocator's slack or in a neighbour that is not missed), or the process is
\* stopped (a fault, the allocator's consistency check).
heap_overflow_outcomes(overflows) ==
    IF overflows THEN {"proceeds", "aborts"} ELSE {"proceeds"}

\* ---------------------------------------------------------------- the heap

\* A heap block is the sequence of its bytes, as many as were allocated; a
\* byte is a one-character string.  A byte nothing has been written to holds
\* no value of the program's: it is Indeterminate, and equals no byte of a
\* chunk and no terminator.
Indeterminate == "?"

\* The terminator of a C string, '\0'.
NUL == "\\0"

\* malloc(n): a block of n bytes, none of them written.
malloc(n) == Ptr([i \in 1..n |-> Indeterminate])

\* realloc(data, n): NULL when the allocator has no block of n bytes (the old
\* block stays where it was), otherwise a block of n bytes that starts with
\* the old block's bytes.
realloc(data, n, granted) ==
    IF ~granted THEN NULL
    ELSE IF n <= Len(Deref(data)) THEN Ptr(SubSeq(Deref(data), 1, n))
    ELSE Ptr(Deref(data) \o [i \in 1..(n - Len(Deref(data))) |-> Indeterminate])

\* memcpy(&data[offset], contents, n): the block with the n bytes of contents
\* from index offset on (C indices start at 0, the sequence's at 1); bytes
\* that would land past the block's end are no part of the block.
memcpy(data, offset, contents) ==
    LET block == Deref(data)
        room == IF offset >= Len(block) THEN 0 ELSE Len(block) - offset
        n == IF Len(contents) <= room THEN Len(contents) ELSE room
    IN  IF n = 0 THEN data
        ELSE Ptr(SubSeq(block, 1, offset) \o SubSeq(contents, 1, n)
                 \o SubSeq(block, offset + n + 1, Len(block)))

\* data[index] = byte
store(data, index, byte) == memcpy(data, index, <<byte>>)

\* The capacity graphql_execute gives the response buffer to start with.
InitialCapacity == 1024

\* graphql_execute's response_buffer before curl_easy_perform: zeroed, then a
\* block of 1024 bytes, capacity 1024, size 0.
graphql_execute_buffer ==
    [data |-> malloc(InitialCapacity), capacity |-> InitialCapacity, size |-> 0]

\* ------------------------------------------------------- escape_json_string

\* C strings whose characters matter are sequences of one-character strings.

\* An escape that lets the backslash through (its case left out of the
\* switch): the variant C11 is tested against.
escape_char_keep_backslash(c) ==
    CASE c = "\"" -> <<"\\", "\"">>
      [] c = "\n" -> <<"\\", "n">>
      [] c = "\r" -> <<"\\", "r">>
      [] c = "\t" -> <<"\\", "t">>
      [] OTHER -> <<c>>

\* The characters escape_json_string writes for one input character.
escape_char(c) ==
    CASE c = "\"" -> <<"\\", "\"">>
      [] c = "\\" -> <<"\\", "\\">>
      [] c = "\n" -> <<"\\", "n">>
      [] c = "\r" -> <<"\\", "r">>
      [] c = "\t" -> <<"\\", "t">>
      [] OTHER -> <<c>>

\* The loop over the characters of str, each one's output after that of the
\* characters before it (taken by halves, which keeps the recursion shallow
\* for names of hundreds of characters).
RECURSIVE escape_json_string(_)
escape_json_string(str) ==
    IF str = <<>> THEN <<>>
    ELSE IF Len(str) = 1 THEN escape_char(str[1])
    ELSE escape_json_string(SubSeq(str, 1, Len(str) \div 2))
         \o escape_json_string(SubSeq(str, Len(str) \div 2 + 1, Len(str)))

\* -------------------------------------------------------------------- state

VARIABLES
    alive,       \* the wincc_client_t handle exists (new .. free)
    token,       \* client->token
    session_id,  \* client->session_id
    headers,     \* client->graphql_client->headers (the curl_slist)
    wire,        \* every request handed to curl_easy_perform, in order
    hist,        \* the API calls made so far, with what each returned
    response_buffer,  \* the buffer_t of the graphql_execute under way
    chunks       \* the write_callback invocations of that transfer, in order

vars == <<alive, token, session_id, headers, wire, hist, response_buffer, chunks>>

\* The transfer's part of the state: no API call is made while a transfer
\* is under way, and none of them leaves it changed.
transfer == <<response_buffer, chunks>>

\* The session part of the client state.
Session == [token |-> token, session_id |-> session_id, headers |-> headers]

\* The request graphql_execute posts: the query, the values the variables
\* are written from, the variables text (NULL for none), the body made of
\* query and text, and the header list CURLOPT_HTTPHEADER points to at that
\* moment.
Request(query, variables, text) ==
    [query |-> query, variables |-> variables, text |-> text,
     body |-> graphql_body(query, text), headers |-> headers]

\* A read, write, browse, alarm list or acknowledgement that gives the session
\* up when the transport fails: the variant C14 is tested against.
operation_session_drop(response) ==
    IF response = NULL
    THEN [token |-> NULL, session_id |-> NULL, headers |-> <<ContentType>>]
    ELSE Session

\* The session a read, write, browse, alarm list or acknowledgement leaves for
\* the answer it gets: none of them assigns token, session id or header list.
operation_session(response) == Session

\* The record of one API call: the operation, its argument, the session
\* before it, the transport's answer, what the call returned and the part
\* of the wire it wrote (requests wire0+1 .. wire1).
Call(op, arg, response, ret, nsent) ==
    [op |-> op, arg |-> arg, pre |-> Session, response |-> response,
     ret |-> ret, wire0 |-> Len(wire), wire1 |-> Len(wire) + nsent,
     aborted |-> FALSE]

\* The record of a call the process did not survive.
Aborted(op, arg) == [Call(op, arg, NULL, NULL, 0) EXCEPT !.aborted = TRUE]

Init ==
    /\ alive = TRUE
    /\ token = NULL
    /\ session_id = NULL
    /\ headers = <<ContentType>>
    /\ wire = <<>>
    /\ hist = <<>>
    /\ response_buffer = graphql_execute_buffer
    /\ chunks = <<>>

\* ------------------------------------------------------------ wincc_connect

\* The wincc_error_t wincc_connect builds from the login's error object:
\* code and description, or the placeholders when a member is missing.
connect_login_error(error_obj) ==
    LET code == cJSON_GetObjectItem(error_obj, "code")
        desc == cJSON_GetObjectItem(error_obj, "description")
    IN  Error(IF code # NULL THEN Deref(code).valuestring ELSE "UNKNOWN_ERROR",
              IF desc # NULL THEN Deref(desc).valuestring ELSE "Unknown error")

\* The credentials wincc_client_new copies into the handle.
Username == <<"o", "p">>

Password == <<"p", "\"", "w">>

\* wincc_connect's variables: {"username":"%s","password":"%s"} over the
\* escaped credentials, in a buffer of 512 bytes.
connect_variables ==
    snprintf(512,
        <<"{", "\"", "u", "s", "e", "r", "n", "a", "m", "e", "\"", ":", "\"">>
        \o escape_json_string(Username)
        \o <<"\"", ",", "\"", "p", "a", "s", "s", "w", "o", "r", "d", "\"", ":", "\"">>
        \o escape_json_string(Password)
        \o <<"\"", "}">>)

\* A connect that keeps the session it already has (a guard "if (!client->token)"
\* around the store): the variant C5 is tested against.
connect_store_first(t) ==
    IF token # NULL THEN Session
    ELSE [token |-> Ptr(t),
          session_id |-> Ptr(t),
          headers |-> Append(headers, Header("Authorization", Bearer(t)))]

\* What wincc_connect stores for a login that returned token t: the token, the
\* token again as session id, and one more Authorization line appended to the
\* transport's header list by graphql_client_set_header.
connect_store(t) ==
    [token |-> Ptr(t),
     session_id |-> Ptr(t),
     headers |-> Append(headers, Header("Authorization", Bearer(t)))]

\* wincc_connect's result for the transport's answer: the returned error (NULL
\* for none) and the session afterwards.
connect_result(response) ==
    LET json == IF response = NULL THEN NULL
                ELSE cJSON_Parse(Deref(response).json_string)
        data == cJSON_GetObjectItem(json, "data")
        login == cJSON_GetObjectItem(data, "login")
        error_obj == cJSON_GetObjectItem(login, "error")
        tok == cJSON_GetObjectItem(login, "token")
    IN  IF response = NULL
        THEN [ret |-> Ptr(Error("CONNECTION_ERROR", "Failed to connect to server")),
              session |-> Session]
        ELSE IF json = NULL
        THEN [ret |-> Ptr(Error("PARSE_ERROR", "Invalid JSON response")),
              session |-> Session]
        ELSE IF error_obj # NULL
        THEN [ret |-> Ptr(connect_login_error(error_obj)), session |-> Session]
        ELSE IF tok # NULL
        THEN [ret |-> NULL, session |-> connect_store(Deref(tok).valuestring)]
        ELSE [ret |-> NULL, session |-> Session]

\* wincc_connect: one Login request, then connect_result.
wincc_connect(response) ==
    LET r == connect_result(response)
        sent == graphql_execute(Request("Login", Ptr("credentials"),
                                        Ptr(connect_variables)), response)
    IN  /\ alive
        /\ UNCHANGED transfer
        /\ Len(hist) < MaxCalls
        /\ wire' = wire \o sent
        /\ token' = r.session.token
        /\ session_id' = r.session.session_id
        /\ headers' = r.session.headers
        /\ hist' = Append(hist, Call("connect", NULL, response, r.ret, Len(sent)))
        /\ UNCHANGED alive

\* --------------------------------------------------------- wincc_disconnect

\* A disconnect without the token test: the variant C4 is tested against.
disconnect_never_returns_early == FALSE

\* wincc_disconnect's early return: nothing is done without a token.
disconnect_returns_early == token = NULL

\* A disconnect that clears only when the logout was answered (the frees moved
\* into "if (response)"): the variant C3 is tested against.
disconnect_clear_if_answered(response) ==
    IF response = NULL THEN [token |-> token, session_id |-> session_id]
    ELSE [token |-> NULL, session_id |-> NULL]

\* The token and session id wincc_disconnect leaves once the Logout request
\* has been made: both cleared, whatever graphql_execute returned.
disconnect_clear(response) == [token |-> NULL, session_id |-> NULL]

\* wincc_disconnect as a function of the transport's answer: the requests it
\* sends and the token and session id it leaves.
disconnect_result(response) ==
    IF disconnect_returns_early
    THEN [sent |-> <<>>, token |-> token, session_id |-> session_id]
    ELSE [sent |-> graphql_execute(Request("Logout", NULL, NULL), response),
          token |-> disconnect_clear(response).token,
          session_id |-> disconnect_clear(response).session_id]

wincc_disconnect(response) ==
    LET r == disconnect_result(response)
    IN  /\ alive
        /\ UNCHANGED transfer
        /\ Len(hist) < MaxCalls
        /\ wire' = wire \o r.sent
        /\ token' = r.token
        /\ session_id' = r.session_id
        /\ hist' = Append(hist, Call("disconnect", NULL,
                                     IF r.sent = <<>> THEN NULL ELSE response,
                                     NULL, Len(r.sent)))
        /\ UNCHANGED <<alive, headers>>

\* wincc_client_free: wincc_disconnect, then the transport (its header list
\* with it), the token and the session id are released with the handle.
wincc_client_free(response) ==
    LET r == disconnect_result(response)
    IN  /\ alive
        /\ UNCHANGED transfer
        /\ Len(hist) < MaxCalls
        /\ wire' = wire \o r.sent
        /\ token' = NULL
        /\ session_id' = NULL
        /\ headers' = <<>>
        /\ alive' = FALSE
        /\ hist' = Append(hist, Call("client_free", NULL,
                                     IF r.sent = <<>> THEN NULL ELSE response,
                                     NULL, Len(r.sent)))

\* wincc_client_new: a zeroed handle over a transport with its one header.
wincc_client_new ==
    /\ ~alive
    /\ UNCHANGED transfer
    /\ alive' = TRUE
    /\ token' = NULL
    /\ session_id' = NULL
    /\ headers' = <<ContentType>>
    /\ UNCHANGED <<wire, hist>>

\* ------------------------------------------------------- value formatting

\* printf's default precision for %g.
GPrecision == 6

RECURSIVE Pow10(_)
Pow10(k) == IF k = 0 THEN 1 ELSE 10 * Pow10(k - 1)

DigitChar(d) ==
    CASE d = 0 -> "0" [] d = 1 -> "1" [] d = 2 -> "2" [] d = 3 -> "3"
      [] d = 4 -> "4" [] d = 5 -> "5" [] d = 6 -> "6" [] d = 7 -> "7"
      [] d = 8 -> "8" [] d = 9 -> "9"

\* The decimal digits of a natural number, most significant first.
RECURSIVE Digits(_)
Digits(a) == IF a < 10 THEN <<DigitChar(a)>>
             ELSE Append(Digits(a \div 10), DigitChar(a % 10))

RECURSIVE StripZeros(_)
StripZeros(ds) ==
    IF ds # <<>> /\ ds[Len(ds)] = "0" THEN StripZeros(SubSeq(ds, 1, Len(ds) - 1))
    ELSE ds

\* snprintf(buffer, 64, "%g", valuedouble) for an integer-valued double: the
\* plain digits while the decimal exponent is below the precision, else the
\* mantissa rounded (half to even) to GPrecision digits, its trailing zeros
\* removed, and a two-digit exponent.
FormatG(n) ==
    LET a == IF n < 0 THEN -n ELSE n
        sign == IF n < 0 THEN <<"-">> ELSE <<>>
        e == Len(Digits(a)) - 1
        scale == Pow10(e - (GPrecision - 1))
        q == a \div scale
        r == a % scale
        up == 2 * r > scale \/ (2 * r = scale /\ q % 2 = 1)
        m0 == IF up THEN q + 1 ELSE q
        carry == m0 = Pow10(GPrecision)
        m == IF carry THEN m0 \div 10 ELSE m0
        e2 == IF carry THEN e + 1 ELSE e
        md == StripZeros(Digits(m))
        frac == SubSeq(md, 2, Len(md))
        ed == IF e2 < 10 THEN <<"0">> \o Digits(e2) ELSE Digits(e2)
    IN  IF e < GPrecision THEN sign \o Digits(a)
        ELSE sign \o <<md[1]>> \o (IF frac = <<>> THEN <<>> ELSE <<".">> \o frac)
                  \o <<"e", "+">> \o ed

\* ---------------------------------------------------------- wincc_read_tags

\* The wincc_error_t attached to one result: code and description, each the
\* empty string when the error object lacks it.
item_error(error) ==
    LET code == cJSON_GetObjectItem(error, "code")
        desc == cJSON_GetObjectItem(error, "description")
    IN  Error(IF code # NULL THEN Deref(code).valuestring ELSE "",
              IF desc # NULL THEN Deref(desc).valuestring ELSE "")

\* result->value for the inner "value" member: a string as it is, a number
\* through %g, a boolean as "true" or "false", anything else left NULL.
tag_value(value) ==
    IF value = NULL THEN NULL
    ELSE IF cJSON_IsString(value) THEN Ptr(Deref(value).valuestring)
    ELSE IF cJSON_IsNumber(value) THEN Ptr(FormatG(Deref(value).valuedouble))
    ELSE IF cJSON_IsBool(value)
         THEN Ptr(IF cJSON_IsTrue(value) THEN <<"t", "r", "u", "e">>
                  ELSE <<"f", "a", "l", "s", "e">>)
    ELSE NULL

\* One wincc_tag_result_t, from one element of the tagValues array (the body
\* of the for loop; the struct starts zeroed by calloc).
read_tag_item(item) ==
    LET name == cJSON_GetObjectItem(item, "name")
        value_obj == cJSON_GetObjectItem(item, "value")
        error == cJSON_GetObjectItem(item, "error")
        value == cJSON_GetObjectItem(value_obj, "value")
        timestamp == cJSON_GetObjectItem(value_obj, "timestamp")
        quality_obj == cJSON_GetObjectItem(value_obj, "quality")
        quality == cJSON_GetObjectItem(quality_obj, "quality")
    IN  [name |-> IF name # NULL THEN Ptr(Deref(name).valuestring) ELSE NULL,
         value |-> tag_value(value),
         timestamp |-> IF timestamp # NULL THEN Ptr(Deref(timestamp).valuestring)
                       ELSE NULL,
         quality |-> IF quality # NULL THEN Ptr(Deref(quality).valuestring)
                     ELSE NULL,
         error |-> IF error # NULL THEN Ptr(item_error(error)) ELSE NULL]

\* A loop that leaves out the elements carrying an error (a "continue" before
\* the item is filled, with count counting what was kept): the variant C6 is
\* tested against.
read_tags_results_skip_failed(read_tags) ==
    IF read_tags = NULL THEN [count |-> 0, items |-> <<>>]
    ELSE LET kept == SelectSeq(Deref(read_tags).elems,
                               LAMBDA x : cJSON_GetObjectItem(Ptr(x), "error") = NULL)
         IN  [count |-> Len(kept),
              items |-> [i \in 1..Len(kept) |-> read_tag_item(Ptr(kept[i]))]]

\* A loop that stops at the first element carrying an error (a "break" after
\* the error is stored), the later results staying zeroed: the variant C8 is
\* tested against.
read_tags_results_stop(read_tags) ==
    IF read_tags = NULL THEN [count |-> 0, items |-> <<>>]
    ELSE [count |-> cJSON_GetArraySize(read_tags),
          items |-> [i \in 1..cJSON_GetArraySize(read_tags) |->
                        IF \E j \in 1..(i - 1) :
                              cJSON_GetObjectItem(cJSON_GetArrayItem(read_tags, j),
                                                  "error") # NULL
                        THEN [name |-> NULL, value |-> NULL, timestamp |-> NULL,
                              quality |-> NULL, error |-> NULL]
                        ELSE read_tag_item(cJSON_GetArrayItem(read_tags, i))]]

\* The wincc_tag_results_t for the tagValues member: count 0 and no items
\* when it is missing, else one result per child, in the array's order.
read_tags_results(read_tags) ==
    IF read_tags = NULL THEN [count |-> 0, items |-> <<>>]
    ELSE [count |-> cJSON_GetArraySize(read_tags),
          items |-> [i \in 1..cJSON_GetArraySize(read_tags) |->
                        read_tag_item(cJSON_GetArrayItem(read_tags, i))]]

\* The array text wincc_read_tags assembles with strcat: per name \" the
\* escaped name \" and a comma after every name but the last.
RECURSIVE read_tags_array_items(_, _, _)
read_tags_array_items(tag_names, i, count) ==
    IF i > count THEN <<>>
    ELSE <<"\\", "\"">> \o escape_json_string(tag_names[i]) \o <<"\\", "\"">>
         \o (IF i < count THEN <<",">> ELSE <<>>)
         \o read_tags_array_items(tag_names, i + 1, count)

read_tags_array(tag_names, count) ==
    <<"[">> \o read_tags_array_items(tag_names, 1, count) \o <<"]">>

\* sprintf(variables, "{\"names\":%s}", tags_array)
read_tags_variables(tag_names, count) ==
    <<"{", "\"", "n", "a", "m", "e", "s", "\"", ":">>
    \o read_tags_array(tag_names, count) \o <<"}">>

\* The bytes malloc'ed for the array text.
read_tags_allocated(count) == count * 256

\* The array text and its terminator do not fit the block.
read_tags_overflows(arg) ==
    Len(read_tags_array(Deref(arg.tag_names), arg.count)) + 1
        > read_tags_allocated(arg.count)

\* wincc_read_tags' argument check: no list, or no names.
read_tags_rejects(arg) == arg.tag_names = NULL \/ arg.count = 0

\* A read that gives up when the answer has no tagValues member (a
\* "return NULL" where the code only logs): the variant C17 is tested against.
read_tags_return_strict(response) ==
    LET json == IF response = NULL THEN NULL
                ELSE cJSON_Parse(Deref(response).json_string)
        data == cJSON_GetObjectItem(json, "data")
        read_tags == cJSON_GetObjectItem(data, "tagValues")
    IN  IF response = NULL \/ json = NULL \/ read_tags = NULL THEN NULL
        ELSE Ptr(read_tags_results(read_tags))

\* What wincc_read_tags returns for the transport's answer.
read_tags_return(response) ==
    LET json == IF response = NULL THEN NULL
                ELSE cJSON_Parse(Deref(response).json_string)
        data == cJSON_GetObjectItem(json, "data")
        read_tags == cJSON_GetObjectItem(data, "tagValues")
    IN  IF response = NULL \/ json = NULL THEN NULL
        ELSE Ptr(read_tags_results(read_tags))

\* wincc_read_tags(client, tag_names, count).
wincc_read_tags(arg, response) ==
    /\ alive
    /\ UNCHANGED transfer
    /\ Len(hist) < MaxCalls
    /\ IF read_tags_rejects(arg)
       THEN /\ wire' = wire
            /\ hist' = Append(hist, Call("read_tags", arg, NULL, NULL, 0))
            /\ UNCHANGED <<alive, token, session_id, headers>>
       ELSE \E outcome \in heap_overflow_outcomes(read_tags_overflows(arg)) :
            IF outcome = "aborts"
            THEN /\ alive' = FALSE
                 /\ hist' = Append(hist, Aborted("read_tags", arg))
                 /\ UNCHANGED <<token, session_id, headers, wire>>
            ELSE LET sent == graphql_execute(
                                Request("TagValues",
                                        Ptr([names |-> Deref(arg.tag_names)]),
                                        Ptr(read_tags_variables(Deref(arg.tag_names),
                                                                arg.count))),
                                response)
                 IN  /\ wire' = wire \o sent
                     /\ hist' = Append(hist, Call("read_tags", arg, response,
                                                  read_tags_return(response), Len(sent)))
                     /\ token' = operation_session(response).token
                     /\ session_id' = operation_session(response).session_id
                     /\ headers' = operation_session(response).headers
                     /\ UNCHANGED alive

\* --------------------------------------------------------- wincc_write_tags

\* One wincc_write_result_t, from one element of the writeTagValues array.
write_tag_item(item) ==
    LET name == cJSON_GetObjectItem(item, "name")
        error == cJSON_GetObjectItem(item, "error")
    IN  [name |-> IF name # NULL THEN Ptr(Deref(name).valuestring) ELSE NULL,
         error |-> IF error # NULL THEN Ptr(item_error(error)) ELSE NULL]

write_tags_results(write_tags) ==
    IF write_tags = NULL THEN [count |-> 0, items |-> <<>>]
    ELSE [count |-> cJSON_GetArraySize(write_tags),
          items |-> [i \in 1..cJSON_GetArraySize(write_tags) |->
                        write_tag_item(cJSON_GetArrayItem(write_tags, i))]]

\* One element of the array text: snprintf into tag_obj[512] of
\* {\"name\":\"%s\",\"value\":\"%s\"} over the escaped name and value.
write_tags_tag_obj(tag) ==
    snprintf(512,
        <<"{", "\\", "\"", "n", "a", "m", "e", "\\", "\"", ":", "\\", "\"">>
        \o escape_json_string(tag.name)
        \o <<"\\", "\"", ",", "\\", "\"", "v", "a", "l", "u", "e", "\\", "\"", ":",
              "\\", "\"">>
        \o escape_json_string(tag.value)
        \o <<"\\", "\"", "}">>)

RECURSIVE write_tags_array_items(_, _, _)
write_tags_array_items(tags, i, count) ==
    IF i > count THEN <<>>
    ELSE write_tags_tag_obj(tags[i])
         \o (IF i < count THEN <<",">> ELSE <<>>)
         \o write_tags_array_items(tags, i + 1, count)

\* The array text wincc_write_tags assembles with strcat.
write_tags_array(tags, count) ==
    <<"[">> \o write_tags_array_items(tags, 1, count) \o <<"]">>

\* sprintf(variables, "{\"input\":%s}", tags_array)
write_tags_variables(tags, count) ==
    <<"{", "\"", "i", "n", "p", "u", "t", "\"", ":">>
    \o write_tags_array(tags, count) \o <<"}">>

\* The bytes malloc'ed for the array text.
write_tags_allocated(count) == count * 512

\* The array text and its terminator do not fit the block.
write_tags_overflows(arg) ==
    Len(write_tags_array(Deref(arg.tags), arg.count)) + 1
        > write_tags_allocated(arg.count)

write_tags_rejects(arg) == arg.tags = NULL \/ arg.count = 0

write_tags_return(response) ==
    LET json == IF response = NULL THEN NULL
                ELSE cJSON_Parse(Deref(response).json_string)
        data == cJSON_GetObjectItem(json, "data")
        write_tags == cJSON_GetObjectItem(data, "writeTagValues")
    IN  IF response = NULL \/ json = NULL THEN NULL
        ELSE Ptr(write_tags_results(write_tags))

\* wincc_write_tags(client, tags, count).
wincc_write_tags(arg, response) ==
    /\ alive
    /\ UNCHANGED transfer
    /\ Len(hist) < MaxCalls
    /\ IF write_tags_rejects(arg)
       THEN /\ wire' = wire
            /\ hist' = Append(hist, Call("write_tags", arg, NULL, NULL, 0))
            /\ UNCHANGED <<alive, token, session_id, headers>>
       ELSE \E outcome \in heap_overflow_outcomes(write_tags_overflows(arg)) :
            IF outcome = "aborts"
            THEN /\ alive' = FALSE
                 /\ hist' = Append(hist, Aborted("write_tags", arg))
                 /\ UNCHANGED <<token, session_id, headers, wire>>
            ELSE LET sent == graphql_execute(
                                Request("WriteTagValues",
                                        Ptr([input |-> Deref(arg.tags)]),
                                        Ptr(write_tags_variables(Deref(arg.tags),
                                                                 arg.count))),
                                response)
                 IN  /\ wire' = wire \o sent
                     /\ hist' = Append(hist, Call("write_tags", arg, response,
                                                  write_tags_return(response), Len(sent)))
                     /\ token' = operation_session(response).token
                     /\ session_id' = operation_session(response).session_id
                     /\ headers' = operation_session(response).headers
                     /\ UNCHANGED alive

\* ------------------------------------------------------------------ strtol

\* (the vertical tab and the form feed are no characters of the model)
isspace(c) == c \in {" ", "\t", "\n", "\r"}

isdigit(c) == c \in {"0", "1", "2", "3", "4", "5", "6", "7", "8", "9"}

DigitValue(c) == CHOOSE d \in 0..9 : DigitChar(d) = c

\* The first index from i on that holds no character satisfying isspace.
RECURSIVE SkipSpace(_, _)
SkipSpace(s, i) == IF i <= Len(s) /\ isspace(s[i]) THEN SkipSpace(s, i + 1) ELSE i

\* The first index from i on that holds no digit.
RECURSIVE SkipDigits(_, _)
SkipDigits(s, i) == IF i <= Len(s) /\ isdigit(s[i]) THEN SkipDigits(s, i + 1) ELSE i

\* The value of the digits s[i..j-1].
RECURSIVE DigitsValue(_, _, _)
DigitsValue(s, i, j) ==
    IF i >= j THEN 0 ELSE DigitsValue(s, i, j - 1) * 10 + DigitValue(s[j - 1])

\* A conversion that takes no leading white space: the variant C10 is tested
\* against.
strtol_no_space(s) ==
    LET signed == 1 <= Len(s) /\ s[1] \in {"+", "-"}
        i1 == IF signed THEN 2 ELSE 1
        i2 == SkipDigits(s, i1)
        v == DigitsValue(s, i1, i2)
    IN  IF i2 = i1 THEN [value |-> 0, endptr |-> 1]
        ELSE [value |-> IF signed /\ s[1] = "-" THEN -v ELSE v, endptr |-> i2]

\* strtol(s, &endptr, 10): white space, an optional sign, digits.  endptr is
\* the 1-based index where the conversion stopped (Len(s)+1 is the
\* terminator); without a digit nothing is converted and endptr is the
\* start.  The strings of the model are too short for the value to leave the
\* range of long.
strtol(s) ==
    LET i0 == SkipSpace(s, 1)
        signed == i0 <= Len(s) /\ s[i0] \in {"+", "-"}
        i1 == IF signed THEN i0 + 1 ELSE i0
        i2 == SkipDigits(s, i1)
        v == DigitsValue(s, i1, i2)
    IN  IF i2 = i1 THEN [value |-> 0, endptr |-> 1]
        ELSE [value |-> IF signed /\ s[i0] = "-" THEN -v ELSE v, endptr |-> i2]

\* -------------------------------------------------- wincc_acknowledge_alarm

\* The one element of the "input" array in the variables text: the characters
\* written between the quotes of "name", and the number after "instanceID".
ack_variables(alarm_id) ==
    LET r == strtol(alarm_id)
    IN  IF r.endptr = Len(alarm_id) + 1
        THEN [name |-> <<>>, instanceID |-> r.value]
        ELSE [name |-> escape_json_string(alarm_id), instanceID |-> 0]

\* printf's %ld and %d for a value within the type's range: a minus sign for a
\* negative number, then the decimal digits.
FormatLd(n) == IF n < 0 THEN <<"-">> \o Digits(-n) ELSE Digits(n)

\* The variables text of the acknowledgement, in a buffer of 512 bytes:
\* {"input":[{"name":"","instanceID":%ld}]} for an identifier strtol reads to
\* its end, {"input":[{"name":"%s","instanceID":0}]} over the escaped
\* identifier for any other.
ack_variables_text(alarm_id) ==
    LET r == strtol(alarm_id)
        head == <<"{", "\"", "i", "n", "p", "u", "t", "\"", ":", "[", "{",
                  "\"", "n", "a", "m", "e", "\"", ":", "\"">>
        mid == <<"\"", ",", "\"", "i", "n", "s", "t", "a", "n", "c", "e", "I", "D",
                 "\"", ":">>
    IN  IF r.endptr = Len(alarm_id) + 1
        THEN snprintf(512, head \o mid \o FormatLd(r.value) \o <<"}", "]", "}">>)
        ELSE snprintf(512, head \o escape_json_string(alarm_id) \o mid
                           \o <<"0", "}", "]", "}">>)

\* The wincc_error_t built from the first result's error object.
ack_error(error_obj) ==
    LET code == cJSON_GetObjectItem(error_obj, "code")
        desc == cJSON_GetObjectItem(error_obj, "description")
    IN  Error(IF code # NULL THEN Deref(code).valuestring ELSE "UNKNOWN_ERROR",
              IF desc # NULL THEN Deref(desc).valuestring ELSE "Unknown error")

\* What wincc_acknowledge_alarm returns for the transport's answer.
ack_return(response) ==
    LET json == IF response = NULL THEN NULL
                ELSE cJSON_Parse(Deref(response).json_string)
        data == cJSON_GetObjectItem(json, "data")
        ack_results == cJSON_GetObjectItem(data, "acknowledgeAlarms")
        first_result == cJSON_GetArrayItem(ack_results, 1)
        error_obj == cJSON_GetObjectItem(first_result, "error")
    IN  IF response = NULL
        THEN Ptr(Error("CONNECTION_ERROR", "Failed to execute request"))
        ELSE IF json = NULL
        THEN Ptr(Error("PARSE_ERROR", "Invalid JSON response"))
        ELSE IF ack_results # NULL /\ cJSON_GetArraySize(ack_results) > 0
                /\ error_obj # NULL
        THEN Ptr(ack_error(error_obj))
        ELSE NULL

\* wincc_acknowledge_alarm(client, alarm_id).
wincc_acknowledge_alarm(alarm_id, response) ==
    /\ alive
    /\ UNCHANGED transfer
    /\ Len(hist) < MaxCalls
    /\ IF alarm_id = NULL
       THEN /\ wire' = wire
            /\ hist' = Append(hist, Call("acknowledge_alarm", alarm_id, NULL, NULL, 0))
            /\ UNCHANGED <<token, session_id, headers>>
       ELSE LET sent == graphql_execute(
                           Request("AcknowledgeAlarms",
                                   Ptr(ack_variables(Deref(alarm_id))),
                                   Ptr(ack_variables_text(Deref(alarm_id)))),
                           response)
            IN  /\ wire' = wire \o sent
                /\ hist' = Append(hist, Call("acknowledge_alarm", alarm_id, response,
                                             ack_return(response), Len(sent)))
                /\ token' = operation_session(response).token
                /\ session_id' = operation_session(response).session_id
                /\ headers' = operation_session(response).headers
    /\ UNCHANGED alive

\* -------------------------------------------------------------- wincc_browse

\* The variables text of a browse, in a buffer of 512 bytes:
\* {"nameFilters":["%s"]} over the escaped path, {"nameFilters":[]} without one.
browse_variables(path) ==
    LET head == <<"{", "\"", "n", "a", "m", "e", "F", "i", "l", "t", "e", "r", "s",
                  "\"", ":", "[">>
    IN  IF path # NULL
        THEN snprintf(512, head \o <<"\"">> \o escape_json_string(Deref(path))
                           \o <<"\"", "]", "}">>)
        ELSE head \o <<"]", "}">>

\* One wincc_browse_item_t, from one element of the browse array: the name,
\* the object type, the name again as address, and no children counted.
browse_item(item) ==
    LET name == cJSON_GetObjectItem(item, "name")
        objectType == cJSON_GetObjectItem(item, "objectType")
    IN  [name |-> IF name # NULL THEN Ptr(Deref(name).valuestring) ELSE NULL,
         type |-> IF objectType # NULL THEN Ptr(Deref(objectType).valuestring)
                  ELSE NULL,
         address |-> IF name # NULL THEN Ptr(Deref(name).valuestring) ELSE NULL,
         children_count |-> 0]

\* The wincc_browse_results_t for the browse member (calloc leaves count 0,
\* no items and no error when it is missing).
browse_results(browse) ==
    IF browse = NULL THEN [count |-> 0, items |-> <<>>, error |-> NULL]
    ELSE [count |-> cJSON_GetArraySize(browse),
          items |-> [i \in 1..cJSON_GetArraySize(browse) |->
                        browse_item(cJSON_GetArrayItem(browse, i))],
          error |-> NULL]

\* What wincc_browse returns for the transport's answer.
browse_return(response) ==
    LET json == IF response = NULL THEN NULL
                ELSE cJSON_Parse(Deref(response).json_string)
        data == cJSON_GetObjectItem(json, "data")
        browse == cJSON_GetObjectItem(data, "browse")
    IN  IF response = NULL \/ json = NULL THEN NULL
        ELSE Ptr(browse_results(browse))

\* wincc_browse(client, path).
wincc_browse(path, response) ==
    LET sent == graphql_execute(
                   Request("Browse", Ptr([nameFilters |-> path]),
                           Ptr(browse_variables(path))),
                   response)
    IN  /\ alive
        /\ UNCHANGED transfer
        /\ Len(hist) < MaxCalls
        /\ wire' = wire \o sent
        /\ hist' = Append(hist, Call("browse", path, response,
                                     browse_return(response), Len(sent)))
        /\ token' = operation_session(response).token
        /\ session_id' = operation_session(response).session_id
        /\ headers' = operation_session(response).headers
        /\ UNCHANGED alive

\* -------------------------------------------------- wincc_get_active_alarms

\* One wincc_alarm_t, from one element of the activeAlarms array: the
\* instance id printed with %d, state, name, the first event text and the
\* class name; the times and the error stay zeroed.
alarm_item(item) ==
    LET name == cJSON_GetObjectItem(item, "name")
        instanceID == cJSON_GetObjectItem(item, "instanceID")
        state == cJSON_GetObjectItem(item, "state")
        eventText == cJSON_GetObjectItem(item, "eventText")
        alarmClassName == cJSON_GetObjectItem(item, "alarmClassName")
        first_text == cJSON_GetArrayItem(eventText, 1)
    IN  [id |-> IF instanceID # NULL THEN Ptr(FormatLd(Deref(instanceID).valuedouble))
                ELSE NULL,
         state |-> IF state # NULL THEN Ptr(Deref(state).valuestring) ELSE NULL,
         name |-> IF name # NULL THEN Ptr(Deref(name).valuestring) ELSE NULL,
         text |-> IF eventText # NULL /\ cJSON_GetArraySize(eventText) > 0
                     /\ first_text # NULL
                  THEN Ptr(Deref(first_text).valuestring) ELSE NULL,
         class_name |-> IF alarmClassName # NULL
                        THEN Ptr(Deref(alarmClassName).valuestring) ELSE NULL,
         come_time |-> 0, go_time |-> 0, ack_time |-> 0,
         error |-> NULL]

\* The wincc_alarms_t for the activeAlarms member.
alarms_results(alarms) ==
    IF alarms = NULL THEN [count |-> 0, items |-> <<>>]
    ELSE [count |-> cJSON_GetArraySize(alarms),
          items |-> [i \in 1..cJSON_GetArraySize(alarms) |->
                        alarm_item(cJSON_GetArrayItem(alarms, i))]]

\* What wincc_get_active_alarms returns for the transport's answer.
alarms_return(response) ==
    LET json == IF response = NULL THEN NULL
                ELSE cJSON_Parse(Deref(response).json_string)
        data == cJSON_GetObjectItem(json, "data")
        alarms == cJSON_GetObjectItem(data, "activeAlarms")
    IN  IF response = NULL \/ json = NULL THEN NULL
        ELSE Ptr(alarms_results(alarms))

\* wincc_get_active_alarms(client): the one operation without variables.
wincc_get_active_alarms(response) ==
    LET sent == graphql_execute(Request("activeAlarms", NULL, NULL), response)
    IN  /\ alive
        /\ UNCHANGED transfer
        /\ Len(hist) < MaxCalls
        /\ wire' = wire \o sent
        /\ hist' = Append(hist, Call("get_active_alarms", NULL, response,
                                     alarms_return(response), Len(sent)))
        /\ token' = operation_session(response).token
        /\ session_id' = operation_session(response).session_id
        /\ headers' = operation_session(response).headers
        /\ UNCHANGED alive

\* ----------------------------------------------------------- write_callback

\* write_callback(contents, size, nmemb, userp) on the buffer buf, with
\* whether the allocator grants the realloc it may ask for: the buffer it
\* leaves and the value it returns.  The new size is size plus size*nmemb;
\* when that is at least the capacity, the capacity becomes twice the new
\* size and the block is realloc'ed to it, and when realloc gives NULL the
\* callback returns 0 with data NULL, the raised capacity and the old size.
\* Otherwise the chunk is copied to index size, size becomes the new size,
\* the byte at that index is set to the terminator, and the callback returns
\* size*nmemb.  (size_t has 64 bits: no size here comes near its wrap-around.)
write_callback_result(buf, contents, size, nmemb, granted) ==
    LET real_size == size * nmemb
        new_size == buf.size + real_size
        grows == new_size >= buf.capacity
        capacity == IF grows THEN new_size * 2 ELSE buf.capacity
        data == IF grows THEN realloc(buf.data, capacity, granted) ELSE buf.data
    IN  IF data = NULL
        THEN [buf |-> [data |-> NULL, capacity |-> capacity, size |-> buf.size],
              ret |-> 0]
        ELSE [buf |-> [data |-> store(memcpy(data, buf.size,
                                             SubSeq(contents, 1, real_size)),
                                      new_size, NUL),
                       capacity |-> capacity, size |-> new_size],
              ret |-> real_size]

\* curl_easy_perform goes on handing chunks to the callback for as long as
\* every invocation has returned the number of bytes it was given; a
\* different return value ends the transfer with an error.
transfer_goes_on == \A i \in 1..Len(chunks) : chunks[i].ret = chunks[i].real_size

\* One invocation of write_callback by curl_easy_perform: the chunk, with
\* the capacity before and after it and what the callback returned, joins
\* the record of the transfer.
write_callback(contents, size, nmemb, granted) ==
    LET r == write_callback_result(response_buffer, contents, size, nmemb, granted)
    IN  /\ alive
        /\ Len(chunks) < MaxChunks
        /\ transfer_goes_on
        /\ response_buffer' = r.buf
        /\ chunks' = Append(chunks, [contents |-> contents,
                                     real_size |-> size * nmemb,
                                     ret |-> r.ret,
                                     capacity0 |-> response_buffer.capacity,
                                     capacity1 |-> r.buf.capacity])
        /\ UNCHANGED <<alive, token, session_id, headers, wire, hist>>

\* ------------------------------------------------------------------ inputs
\*
\* The answers below are what a server can send: any member may be missing at
\* any level, and a member that is present has the JSON type the code reads
\* it with (the code reads valuestring without a type test, so a name, code,
\* description or token of another type is outside these sets).

\* Elements in a response array.
MaxItems == 2

\* Names (or name/value pairs) in one request.
MaxNames == 2

\* Characters in an alarm identifier.
MaxIdLen == 3

SeqsUpTo(S, n) == UNION {[1..k -> S] : k \in 0..n}

Tokens == {"t1", "t2"}

TagNames == {<<"T", "1">>, <<"T", "2">>}

ErrorObjects ==
    {JObject(NoFields),
     JObject(("code" :> JString("E1")) @@ ("description" :> JString("failed")))}

DataBody(fields) == Response(Body(JObject("data" :> JObject(fields))))

\* Answers every operation can get: no answer, text that is no JSON, JSON
\* without "data", "data" without the operation's member.
CommonResponses ==
    {TransportFail, Response(BadBody), Response(Body(JObject(NoFields))),
     DataBody(NoFields)}

\* The bodies a Login can be answered with: a login object with or without a
\* token, with or without an error object.
LoginObjects ==
    {JObject(t @@ e) :
        t \in {NoFields} \cup {"token" :> JString(x) : x \in Tokens},
        e \in {NoFields} \cup {"error" :> o : o \in ErrorObjects}}

LoginResponses ==
    CommonResponses \cup {DataBody("login" :> l) : l \in LoginObjects}

LogoutResponses == {TransportFail, DataBody("logout" :> JBool(TRUE))}

\* The elements of a tagValues array: name, value object and error object,
\* each present or not.
TagItems ==
    {JObject(n @@ v @@ e) :
        n \in {NoFields} \cup {"name" :> JString(x) : x \in TagNames},
        v \in {NoFields,
               "value" :> JObject(("value" :> JString(<<"o", "n">>))
                                  @@ ("timestamp" :> JString("2024-01-01"))
                                  @@ ("quality" :> JObject("quality" :> JString("GOOD")))),
               "value" :> JObject("value" :> JNumber(3)),
               "value" :> JObject("value" :> JBool(TRUE))},
        e \in {NoFields} \cup {"error" :> o : o \in ErrorObjects}}

TagResponses ==
    CommonResponses
    \cup {DataBody("tagValues" :> JArray(a)) : a \in SeqsUpTo(TagItems, MaxItems)}

\* The names callers ask for: the first k of these, k up to MaxNames.
RequestNames == <<(<<"T", "1">>), (<<"T", "2">>), (<<"T", "3">>), (<<"T", "4">>)>>

NameLists == {SubSeq(RequestNames, 1, k) : k \in 0..MaxNames}

\* (tag_names, count) as callers pass them: no list, or a list and its length.
ReadArgs ==
    {[tag_names |-> NULL, count |-> c] : c \in {0, 1}}
    \cup {[tag_names |-> Ptr(ns), count |-> Len(ns)] : ns \in NameLists}

WriteItems ==
    {JObject(n @@ e) :
        n \in {NoFields} \cup {"name" :> JString(x) : x \in TagNames},
        e \in {NoFields} \cup {"error" :> o : o \in ErrorObjects}}

WriteResponses ==
    CommonResponses
    \cup {DataBody("writeTagValues" :> JArray(a)) : a \in SeqsUpTo(WriteItems, MaxItems)}

WriteArgs ==
    {[tags |-> NULL, count |-> c] : c \in {0, 1}}
    \cup {[tags |-> Ptr([i \in 1..Len(ns) |-> [name |-> ns[i], value |-> <<"1">>]]),
           count |-> Len(ns)] : ns \in NameLists}

\* The few tag calls of the session machine: an empty list, no list, a list,
\* answered by nothing, by text that is no JSON, or by one value and one error.
SessionReadArgs ==
    {[tag_names |-> Ptr(<<>>), count |-> 0],
     [tag_names |-> NULL, count |-> 2],
     [tag_names |-> Ptr(<<(<<"T", "1">>), (<<"T", "2">>)>>), count |-> 2]}

SessionTagResponses ==
    {TransportFail, Response(BadBody),
     DataBody("tagValues" :> JArray(<<
        JObject(("name" :> JString(<<"T", "1">>))
                @@ ("value" :> JObject("value" :> JNumber(3)))),
        JObject(("name" :> JString(<<"T", "2">>))
                @@ ("error" :> JObject("code" :> JString("E1"))))>>))}

SessionWriteArgs ==
    {[tags |-> Ptr(<<>>), count |-> 0],
     [tags |-> NULL, count |-> 1],
     [tags |-> Ptr(<<[name |-> <<"T", "1">>, value |-> <<"1">>]>>), count |-> 1]}

SessionWriteResponses ==
    {TransportFail, Response(BadBody),
     DataBody("writeTagValues" :> JArray(<<JObject("name" :> JString(<<"T", "1">>))>>))}

\* Alarm identifiers: every string of up to MaxIdLen of these characters.
IdChars == {"4", "2", "-", "+", " ", "x", "\""}

AlarmIds == {NULL} \cup {Ptr(s) : s \in SeqsUpTo(IdChars, MaxIdLen)}

AckResponses ==
    CommonResponses
    \cup {DataBody("acknowledgeAlarms" :> JArray(a)) :
            a \in {<<>>, <<JObject(NoFields)>>}
                  \cup {<<JObject("error" :> o)>> : o \in ErrorObjects}}

\* Characters in a name, a value or a path handed to the query builder.
MaxStrLen == 3

\* The five characters escape_json_string rewrites and two it does not (the
\* letter n is the second character of an escaped newline).
EscapeChars == {"\"", "\\", "\n", "\r", "\t", "a", "n"}

Strings == SeqsUpTo(EscapeChars, MaxStrLen)

\* Name lists of the query builder: any string first, then the first names
\* of RequestNames, MaxNames names at most.
BuilderReadArgs ==
    {[tag_names |-> Ptr(<<s>> \o SubSeq(RequestNames, 1, k)), count |-> k + 1] :
        s \in Strings, k \in 0..(MaxNames - 1)}

\* Name/value pairs of the query builder: any string as the first name or as
\* the first value.
BuilderWriteArgs ==
    {[tags |-> Ptr(<<t>> \o [i \in 1..k |-> [name |-> RequestNames[i], value |-> <<"1">>]]),
      count |-> k + 1] :
        t \in {[name |-> s, value |-> <<"1">>] : s \in Strings}
               \cup {[name |-> <<"T", "1">>, value |-> s] : s \in Strings},
        k \in 0..(MaxNames - 1)}

BuilderPaths == {NULL} \cup {Ptr(s) : s \in Strings}

BuilderResponses == {TransportFail, DataBody(NoFields)}

\* The largest magnitude of the small numbers a tag value takes.
MaxNumber == 60

\* Tag values as numbers: the small ones, and some around and beyond the six
\* digits %g prints.
ValueNumbers ==
    (-MaxNumber..MaxNumber)
    \cup {99999, 100000, 999999, 1000000, 1000001, 1234567, -1234567, 123456789}

\* The inner "value" member as a string, a number or a boolean.
TagValues ==
    {JString(x) : x \in {<<>>, <<"o", "n">>, <<"3", ".", "0">>}}
    \cup {JNumber(n) : n \in ValueNumbers}
    \cup {JBool(b) : b \in BOOLEAN}

\* An answer of one element carrying a value.
ValueResponses ==
    {DataBody("tagValues" :> JArray(<<
        JObject(("name" :> JString(<<"T", "1">>))
                @@ ("value" :> JObject("value" :> v)))>>)) : v \in TagValues}

\* API calls made on the client handle in one behaviour of the operations'
\* specification.
MaxOps == 2

\* The answers an operation reading the array "member" can get: the common
\* ones, an empty array, and an array of the one element.
OpsResponses(member, element) ==
    CommonResponses
    \cup {DataBody(member :> JArray(<<>>)), DataBody(member :> JArray(<<element>>))}

OpsLoginResponses ==
    {TransportFail, Response(BadBody),
     DataBody("login" :> JObject("token" :> JString("t1"))),
     DataBody("login" :> JObject("error" :> JObject(NoFields)))}

OpsReadArgs ==
    {[tag_names |-> NULL, count |-> 1],
     [tag_names |-> Ptr(<<(<<"T", "1">>)>>), count |-> 1]}

OpsTagElement ==
    JObject(("name" :> JString(<<"T", "1">>))
            @@ ("error" :> JObject("code" :> JString("E1"))))

OpsWriteArgs ==
    {[tags |-> Ptr(<<>>), count |-> 0],
     [tags |-> Ptr(<<[name |-> <<"T", "1">>, value |-> <<"1">>]>>), count |-> 1]}

OpsPaths == {NULL, Ptr(<<"H", "M", "I">>)}

OpsBrowseElement ==
    JObject(("name" :> JString("HMI_Tag_1")) @@ ("objectType" :> JString("TAG")))

OpsAlarmElement ==
    JObject(("name" :> JString("Overheat")) @@ ("instanceID" :> JNumber(7))
            @@ ("state" :> JString("RAISED"))
            @@ ("eventText" :> JArray(<<JString("too hot")>>))
            @@ ("alarmClassName" :> JString("Alarm")))

OpsAlarmIds == {NULL, Ptr(<<"4", "2">>), Ptr(<<"x">>)}

\* A string of n letters, and one of n double quotes (which escape to 2n
\* characters).
Filler(n) == [i \in 1..n |-> "a"]

Quotes(n) == [i \in 1..n |-> "\""]

\* Tag names around the length one name's share of the read block holds:
\* a name alone needs its escaped length and 7 more bytes.
LongNames ==
    {Filler(n) : n \in {1, 100, 248, 249, 250, 251}} \cup {Quotes(124), Quotes(125)}

LongReadArgs ==
    {[tag_names |-> Ptr(ns), count |-> Len(ns)] :
        ns \in SeqsUpTo(LongNames, MaxNames) \ {<<>>}}

\* Pairs around the length tag_obj holds: the escaped name and value and 30
\* more characters, cut to 511.
LongPairs ==
    {[name |-> Filler(240), value |-> v] :
        v \in {Filler(n) : n \in {1, 200, 238, 239, 240, 241, 250}} \cup {Quotes(120)}}

LongWriteArgs ==
    {[tags |-> Ptr(ts), count |-> Len(ts)] :
        ts \in SeqsUpTo(LongPairs, MaxNames) \ {<<>>}}

\* n bytes of the character c.
RECURSIVE Bytes(_, _)
Bytes(c, n) ==
    IF n = 0 THEN <<>>
    ELSE IF n = 1 THEN <<c>>
    ELSE Bytes(c, n \div 2) \o Bytes(c, n - n \div 2)

\* The lengths of the chunks curl hands over: none, one byte, and those that
\* bring a new buffer to two and one short of its capacity and to it.
ChunkSizes == {0, 1, InitialCapacity - 2, InitialCapacity - 1, InitialCapacity}

\* The chunks: of each length, one of each of two letters.
Chunks == {Bytes(c, n) : c \in {"a", "b"}, n \in ChunkSizes}

\* ---------------------------------------------------------- specifications

\* The session machine: connect, disconnect, release and re-create, with tag
\* calls in between.
Next ==
    \/ \E response \in LoginResponses : wincc_connect(response)
    \/ \E response \in LogoutResponses : wincc_disconnect(response)
    \/ \E response \in LogoutResponses : wincc_client_free(response)
    \/ wincc_client_new
    \/ \E arg \in SessionReadArgs, response \in SessionTagResponses :
          wincc_read_tags(arg, response)
    \/ \E arg \in SessionWriteArgs, response \in SessionWriteResponses :
          wincc_write_tags(arg, response)

Spec == Init /\ [][Next]_vars

\* The response mapper: one read or write on a new client, over every
\* argument list and every answer within the bounds.
NextTags ==
    \/ /\ hist = <<>>
       /\ \E arg \in ReadArgs, response \in TagResponses :
             wincc_read_tags(arg, response)
    \/ /\ hist = <<>>
       /\ \E arg \in WriteArgs, response \in WriteResponses :
             wincc_write_tags(arg, response)

SpecTags == Init /\ [][NextTags]_vars

\* The alarm acknowledgement: one call on a new client, over every identifier
\* and every answer within the bounds.
NextAck ==
    /\ hist = <<>>
    /\ \E alarm_id \in AlarmIds, response \in AckResponses :
          wincc_acknowledge_alarm(alarm_id, response)

SpecAck == Init /\ [][NextAck]_vars

\* The query builder: one read, write, browse or alarm list on a new client,
\* over names, values and paths of every character escape_json_string knows.
NextBuilder ==
    \/ /\ hist = <<>>
       /\ \E arg \in BuilderReadArgs, response \in BuilderResponses :
             wincc_read_tags(arg, response)
    \/ /\ hist = <<>>
       /\ \E arg \in BuilderWriteArgs, response \in BuilderResponses :
             wincc_write_tags(arg, response)
    \/ /\ hist = <<>>
       /\ \E path \in BuilderPaths, response \in BuilderResponses :
             wincc_browse(path, response)
    \/ /\ hist = <<>>
       /\ \E response \in BuilderResponses : wincc_get_active_alarms(response)

SpecBuilder == Init /\ [][NextBuilder]_vars

\* The value normalisation: one read of one tag on a new client, answered
\* with every value of TagValues.
NextValues ==
    /\ hist = <<>>
    /\ \E response \in ValueResponses :
          wincc_read_tags([tag_names |-> Ptr(<<(<<"T", "1">>)>>), count |-> 1], response)

SpecValues == Init /\ [][NextValues]_vars

\* The operations: every call of the Domain API, with connect and
\* disconnect, on one client, each answered in every way.
NextOps ==
    \/ /\ Len(hist) < MaxOps
       /\ \E response \in OpsLoginResponses : wincc_connect(response)
    \/ /\ Len(hist) < MaxOps
       /\ \E response \in LogoutResponses : wincc_disconnect(response)
    \/ /\ Len(hist) < MaxOps
       /\ \E arg \in OpsReadArgs, response \in OpsResponses("tagValues", OpsTagElement) :
             wincc_read_tags(arg, response)
    \/ /\ Len(hist) < MaxOps
       /\ \E arg \in OpsWriteArgs,
             response \in OpsResponses("writeTagValues", OpsTagElement) :
             wincc_write_tags(arg, response)
    \/ /\ Len(hist) < MaxOps
       /\ \E path \in OpsPaths, response \in OpsResponses("browse", OpsBrowseElement) :
             wincc_browse(path, response)
    \/ /\ Len(hist) < MaxOps
       /\ \E response \in OpsResponses("activeAlarms", OpsAlarmElement) :
             wincc_get_active_alarms(response)
    \/ /\ Len(hist) < MaxOps
       /\ \E alarm_id \in OpsAlarmIds,
             response \in OpsResponses("acknowledgeAlarms", OpsTagElement) :
             wincc_acknowledge_alarm(alarm_id, response)

SpecOps == Init /\ [][NextOps]_vars

\* The request buffers: one read or write on a new client, with names and
\* values as long as the blocks malloc'ed for the array text.
NextBuffer ==
    \/ /\ hist = <<>>
       /\ \E arg \in LongReadArgs, response \in BuilderResponses :
             wincc_read_tags(arg, response)
    \/ /\ hist = <<>>
       /\ \E arg \in LongWriteArgs, response \in BuilderResponses :
             wincc_write_tags(arg, response)

SpecBuffer == Init /\ [][NextBuffer]_vars

\* The response buffer: one transfer of up to MaxChunks chunks (curl calls
\* the callback with size 1), each realloc granted or refused.
NextCallback ==
    \E contents \in Chunks, granted \in BOOLEAN :
       write_callback(contents, 1, Len(contents), granted)

SpecCallback == Init /\ [][NextCallback]_vars

\* --------------------------------------------------------------- properties

HasCall == hist # <<>>

\* The call that returned last.
Last == hist[Len(hist)]

\* The session call k left behind.  (A client_free is followed by a
\* wincc_client_new, so it is asked only of calls on a handle still alive.)
PostSession(k) == IF k = Len(hist) THEN Session ELSE hist[k + 1].pre

\* The requests call c put on the wire.
SentBy(c) == SubSeq(wire, c.wire0 + 1, c.wire1)

HasAuthorization(hs) == \E i \in 1..Len(hs) : hs[i].name = "Authorization"

\* The "token" member of a Login answer, NULL when any level is missing.
LoginToken(response) ==
    IF response = NULL THEN NULL
    ELSE cJSON_GetObjectItem(
            cJSON_GetObjectItem(
                cJSON_GetObjectItem(cJSON_Parse(Deref(response).json_string), "data"),
                "login"),
            "token")

\* C1 (as claimed): whenever wincc_connect returns an error the client is
\* Disconnected afterwards: no token, no session id, and no Authorization
\* header left for later requests, whatever was called before.
C1_FailedConnectDisconnected ==
    (HasCall /\ Last.op = "connect" /\ Last.ret # NULL)
        => /\ token = NULL
           /\ session_id = NULL
           /\ ~HasAuthorization(headers)

\* C2 (as claimed): whenever wincc_connect returns no error the client holds
\* the token of the login answer, its session id is that token, and the
\* header Authorization: Bearer <token> is registered; an answer without a
\* token is not reported as success.
C2_ConnectOkIsConnected ==
    (HasCall /\ Last.op = "connect" /\ Last.ret = NULL)
        => /\ LoginToken(Last.response) # NULL
           /\ token = Ptr(Deref(LoginToken(Last.response)).valuestring)
           /\ session_id = token
           /\ \E i \in 1..Len(headers) :
                 headers[i] = Header("Authorization", Bearer(Deref(token)))

\* C3: a disconnect made while a token is held, on its own or as part of
\* wincc_client_free, sends exactly one Logout request, surfaces nothing to
\* the caller and leaves token and session id cleared, whether the transport
\* answered or failed.
C3_DisconnectBestEffort ==
    \A k \in 1..Len(hist) :
        (hist[k].op \in {"disconnect", "client_free"} /\ hist[k].pre.token # NULL)
            => /\ Len(SentBy(hist[k])) = 1
               /\ SentBy(hist[k])[1].query = "Logout"
               /\ hist[k].ret = NULL
               /\ PostSession(k).token = NULL
               /\ PostSession(k).session_id = NULL

\* C3's case: a disconnect with a token held whose Logout met a transport
\* failure, after which the token is gone.
C3_Witness ==
    /\ HasCall
    /\ Last.op = "disconnect"
    /\ Last.pre.token # NULL
    /\ Last.response = TransportFail
    /\ Len(SentBy(Last)) = 1
    /\ token = NULL

\* C4: a disconnect without a token (a second one in a row, or one on a
\* client never connected) sends nothing, returns nothing and leaves the
\* session as it found it; a client_free without a token sends nothing
\* either, so disconnect followed by client_free sends at most one Logout.
C4_DisconnectIdempotent ==
    /\ \A k \in 1..Len(hist) :
          (hist[k].op = "disconnect" /\ hist[k].pre.token = NULL)
              => /\ SentBy(hist[k]) = <<>>
                 /\ hist[k].ret = NULL
                 /\ PostSession(k) = hist[k].pre
    /\ \A k \in 1..Len(hist) :
          (hist[k].op = "client_free" /\ hist[k].pre.token = NULL)
              => SentBy(hist[k]) = <<>>
    /\ \A k \in 1..(Len(hist) - 1) :
          (hist[k].op = "disconnect" /\ hist[k + 1].op \in {"disconnect", "client_free"})
              => /\ SentBy(hist[k + 1]) = <<>>
                 /\ Len(SentBy(hist[k])) + Len(SentBy(hist[k + 1])) <= 1

\* C4's case: a disconnect that logged out, then client_free right after it,
\* with one Logout on the wire in all.
C4_Witness ==
    \E k \in 1..(Len(hist) - 1) :
        /\ hist[k].op = "disconnect"
        /\ hist[k].pre.token # NULL
        /\ hist[k + 1].op = "client_free"
        /\ Len(SentBy(hist[k])) + Len(SentBy(hist[k + 1])) = 1

\* A connect that returned no error for an answer carrying a token.
ConnectOk(k) ==
    /\ hist[k].op = "connect"
    /\ hist[k].ret = NULL
    /\ LoginToken(hist[k].response) # NULL

GotToken(k) == Deref(LoginToken(hist[k].response)).valuestring

DataMember(response, member) ==
    IF response = NULL THEN NULL
    ELSE cJSON_GetObjectItem(
            cJSON_GetObjectItem(cJSON_Parse(Deref(response).json_string), "data"),
            member)

\* The name element i of a response array carries, as a pointer.
ElementName(arr, i) ==
    LET name == cJSON_GetObjectItem(cJSON_GetArrayItem(arr, i), "name")
    IN  IF name = NULL THEN NULL ELSE Ptr(Deref(name).valuestring)

ElementHasError(arr, i) ==
    cJSON_GetObjectItem(cJSON_GetArrayItem(arr, i), "error") # NULL

\* A read of a non-empty list of names that returned a collection.
ReadReturned ==
    /\ HasCall
    /\ Last.op = "read_tags"
    /\ Last.arg.tag_names # NULL
    /\ Last.arg.count > 0
    /\ Last.ret # NULL

\* C6 (as claimed): a read of a non-empty list that returns a collection
\* returns one result per requested name: as many results as names requested
\* and no name twice, whatever array the server sent.
C6_OneResultPerRequestedName ==
    ReadReturned
        => LET r == Deref(Last.ret)
           IN  /\ r.count = Last.arg.count
               /\ \A i \in 1..r.count : \A j \in 1..r.count :
                     i # j => r.items[i].name # r.items[j].name

\* C6 (amended): a read of a non-empty list that returns a collection returns
\* one result per element of the tagValues array (none when the member is
\* missing), in the array's order and under the element's name; so when the
\* array names the requested tags one for one, the results do.
C6_OneResultPerElement ==
    ReadReturned
        => LET r == Deref(Last.ret)
               arr == DataMember(Last.response, "tagValues")
               names == Deref(Last.arg.tag_names)
           IN  /\ r.count = cJSON_GetArraySize(arr)
               /\ DOMAIN r.items = 1..r.count
               /\ \A i \in 1..r.count : r.items[i].name = ElementName(arr, i)
               /\ ( /\ cJSON_GetArraySize(arr) = Len(names)
                    /\ \A i \in 1..Len(names) : ElementName(arr, i) = Ptr(names[i]) )
                    => /\ r.count = Last.arg.count
                       /\ \A i \in 1..r.count : r.items[i].name = Ptr(names[i])

\* C6's case: two names requested, an array of one element answered, one
\* result returned.
C6_Witness ==
    /\ ReadReturned
    /\ Last.arg.count = 2
    /\ cJSON_GetArraySize(DataMember(Last.response, "tagValues")) = 1
    /\ Deref(Last.ret).count = 1

\* C7 (as claimed): no result of a read has both a value and an error; an
\* element carrying an error object gives a result with the error set and
\* value, quality and timestamp absent, even when it carries a value object.
C7_ValueXorError ==
    ReadReturned
        => LET r == Deref(Last.ret)
               arr == DataMember(Last.response, "tagValues")
           IN  \A i \in 1..r.count :
                  /\ ~(r.items[i].value # NULL /\ r.items[i].error # NULL)
                  /\ ElementHasError(arr, i)
                        => /\ r.items[i].error # NULL
                           /\ r.items[i].value = NULL
                           /\ r.items[i].quality = NULL
                           /\ r.items[i].timestamp = NULL

\* The result the same operation returns for element i when the server sends
\* that element alone.
ResultAlone(op, arr, i) ==
    LET e == Deref(cJSON_GetArrayItem(arr, i))
    IN  IF op = "read_tags"
        THEN Deref(read_tags_return(DataBody("tagValues" :> JArray(<<e>>)))).items[1]
        ELSE Deref(write_tags_return(DataBody("writeTagValues" :> JArray(<<e>>)))).items[1]

\* C8: for a response array of n elements a read or a write returns n
\* results in the array's order; result i is the one element i gives on its
\* own, it has an error exactly when element i carries an error object (with
\* or without code and description), and so an error on one element neither
\* ends the batch nor touches another result.
C8_BatchPartialFailure ==
    (HasCall /\ Last.op \in {"read_tags", "write_tags"} /\ Last.ret # NULL)
        => LET r == Deref(Last.ret)
               arr == DataMember(Last.response,
                                 IF Last.op = "read_tags" THEN "tagValues"
                                 ELSE "writeTagValues")
           IN  arr # NULL
                 => /\ r.count = Len(Deref(arr).elems)
                    /\ DOMAIN r.items = 1..r.count
                    /\ \A i \in 1..r.count :
                          /\ r.items[i] = ResultAlone(Last.op, arr, i)
                          /\ ElementHasError(arr, i) <=> r.items[i].error # NULL

\* C8's case: a read answered by two elements, the first with an error object
\* that has neither code nor description, the second with a value and no
\* error; the first result has an error, the second its value and none.
C8_Witness ==
    /\ ReadReturned
    /\ LET r == Deref(Last.ret)
           arr == DataMember(Last.response, "tagValues")
       IN  /\ r.count = 2
           /\ cJSON_GetObjectItem(cJSON_GetArrayItem(arr, 1), "error")
                 = Ptr(JObject(NoFields))
           /\ r.items[1].error # NULL
           /\ ~ElementHasError(arr, 2)
           /\ r.items[2].value # NULL
           /\ r.items[2].error = NULL

\* The list argument of a read or write call.
ArgList(c) == IF c.op = "read_tags" THEN c.arg.tag_names ELSE c.arg.tags

\* C9 (as claimed): a read or write called with count 0 or with no list
\* sends no request, leaves the session as it was, and reports the failure
\* to the caller as an error value of kind ValidationError.
C9_EmptyListIsValidationError ==
    ( /\ HasCall
      /\ Last.op \in {"read_tags", "write_tags"}
      /\ (ArgList(Last) = NULL \/ Last.arg.count = 0) )
        => /\ SentBy(Last) = <<>>
           /\ Session = Last.pre
           /\ Last.ret # NULL
           /\ Deref(Last.ret).error_code = "VALIDATION_ERROR"

\* Decimal text: at least one character, digits only.
IsDigits(s) == Len(s) >= 1 /\ \A i \in 1..Len(s) : isdigit(s[i])

\* An integer written out: an optional sign, then digits, nothing else.
IsInteger(s) ==
    \/ IsDigits(s)
    \/ Len(s) >= 2 /\ s[1] \in {"+", "-"} /\ IsDigits(Tail(s))

IntegerValue(s) ==
    IF s[1] = "-" THEN -DigitsValue(s, 2, Len(s) + 1)
    ELSE IF s[1] = "+" THEN DigitsValue(s, 2, Len(s) + 1)
    ELSE DigitsValue(s, 1, Len(s) + 1)

\* The number of white-space characters s starts with.
Blanks(s) ==
    CHOOSE k \in 0..Len(s) :
        /\ \A i \in 1..k : isspace(s[i])
        /\ k < Len(s) => ~isspace(s[k + 1])

Unblank(s) == SubSeq(s, Blanks(s) + 1, Len(s))

\* The string a JSON parser reads from the characters between the quotes of a
\* string literal; text no parser accepts there decodes to a marker that is no
\* string of the model.
NotJsonText == <<"(no JSON string)">>

RECURSIVE JsonStringDecode(_)
JsonStringDecode(t) ==
    IF t = <<>> THEN <<>>
    ELSE IF Head(t) \in {"\"", "\n", "\r", "\t"} THEN NotJsonText
    ELSE IF Head(t) # "\\"
         THEN LET rest == JsonStringDecode(Tail(t))
              IN  IF rest = NotJsonText THEN NotJsonText ELSE <<Head(t)>> \o rest
    ELSE IF Len(t) < 2 \/ t[2] \notin {"\"", "\\", "n", "r", "t"} THEN NotJsonText
    ELSE LET rest == JsonStringDecode(SubSeq(t, 3, Len(t)))
             c == CASE t[2] = "\"" -> "\""
                    [] t[2] = "\\" -> "\\"
                    [] t[2] = "n" -> "\n"
                    [] t[2] = "r" -> "\r"
                    [] t[2] = "t" -> "\t"
         IN  IF rest = NotJsonText THEN NotJsonText ELSE <<c>> \o rest

\* An acknowledgement of a given identifier, and the input element it sent.
AckSent == HasCall /\ Last.op = "acknowledge_alarm" /\ Last.arg # NULL

AckPayload == Deref(SentBy(Last)[1].variables)

\* C10 (as claimed): the variables are in numeric mode (name empty,
\* instanceID the number) exactly when the identifier is an integer written
\* out, and in name mode (name the identifier, instanceID 0) for every other
\* string: the empty one, one with leading white space, digits followed by
\* other characters.
C10_NumericIffInteger ==
    AckSent
        => LET id == Deref(Last.arg)
           IN  IF IsInteger(id)
               THEN AckPayload = [name |-> <<>>, instanceID |-> IntegerValue(id)]
               ELSE /\ JsonStringDecode(AckPayload.name) = id
                    /\ AckPayload.instanceID = 0

\* C10 (amended): numeric mode exactly when strtol converts the whole
\* identifier, that is when it is an integer written out after any leading
\* white space; name mode for every other string, the name text decoding to
\* the identifier.  (For the empty string the name-mode payload, name empty
\* and instanceID 0, is what is sent.)
C10_NumericIffStrtolWhole ==
    AckSent
        => LET id == Deref(Last.arg)
           IN  IF IsInteger(Unblank(id))
               THEN AckPayload = [name |-> <<>>,
                                  instanceID |-> IntegerValue(Unblank(id))]
               ELSE /\ JsonStringDecode(AckPayload.name) = id
                    /\ AckPayload.instanceID = 0

\* C10's case: the identifier " 42", sent in numeric mode as instance 42.
C10_Witness ==
    /\ AckSent
    /\ Deref(Last.arg) = <<" ", "4", "2">>
    /\ AckPayload = [name |-> <<>>, instanceID |-> 42]

\* ------------------------------------------------------------- JSON text
\*
\* What a JSON parser (the server's) reads from a text, as cJSON items; the
\* keys of an object read from text are sequences of characters.

\* The index of the quote that closes a string whose content starts at i,
\* 0 when there is none.
RECURSIVE StringEnd(_, _)
StringEnd(t, i) ==
    IF i > Len(t) THEN 0
    ELSE IF t[i] = "\"" THEN i
    ELSE IF t[i] = "\\" THEN StringEnd(t, i + 2)
    ELSE StringEnd(t, i + 1)

ParseFail == [ok |-> FALSE, val |-> JObject(NoFields), next |-> 0]

Parsed(v, n) == [ok |-> TRUE, val |-> v, next |-> n]

ParseString(t, i) ==
    LET j == StringEnd(t, i + 1)
        d == JsonStringDecode(SubSeq(t, i + 1, j - 1))
    IN  IF i > Len(t) \/ t[i] # "\"" \/ j = 0 THEN ParseFail
        ELSE IF d = NotJsonText THEN ParseFail
        ELSE Parsed(JString(d), j + 1)

ParseNumber(t, i) ==
    LET i1 == IF t[i] = "-" THEN i + 1 ELSE i
        i2 == SkipDigits(t, i1)
        v == DigitsValue(t, i1, i2)
    IN  IF i2 = i1 THEN ParseFail
        ELSE Parsed(JNumber(IF t[i] = "-" THEN -v ELSE v), i2)

RECURSIVE ParseValue(_, _), ParseMembers(_, _, _), ParseElements(_, _, _)
ParseValue(t, i0) ==
    LET i == SkipSpace(t, i0)
        j == SkipSpace(t, i + 1)
    IN  IF i > Len(t) THEN ParseFail
        ELSE IF t[i] = "\"" THEN ParseString(t, i)
        ELSE IF t[i] = "{"
             THEN IF j <= Len(t) /\ t[j] = "}" THEN Parsed(JObject(NoFields), j + 1)
                  ELSE ParseMembers(t, j, NoFields)
        ELSE IF t[i] = "["
             THEN IF j <= Len(t) /\ t[j] = "]" THEN Parsed(JArray(<<>>), j + 1)
                  ELSE ParseElements(t, j, <<>>)
        ELSE IF t[i] = "-" \/ isdigit(t[i]) THEN ParseNumber(t, i)
        ELSE ParseFail

\* The members of an object from i on, after those in acc; of two members with
\* one key the first is the one found.
ParseMembers(t, i, acc) ==
    LET key == ParseString(t, i)
        c == SkipSpace(t, key.next)
        v == ParseValue(t, c + 1)
        d == SkipSpace(t, v.next)
        fields == acc @@ (key.val.valuestring :> v.val)
    IN  IF ~key.ok \/ c > Len(t) \/ t[c] # ":" THEN ParseFail
        ELSE IF ~v.ok \/ d > Len(t) THEN ParseFail
        ELSE IF t[d] = "}" THEN Parsed(JObject(fields), d + 1)
        ELSE IF t[d] = "," THEN ParseMembers(t, SkipSpace(t, d + 1), fields)
        ELSE ParseFail

ParseElements(t, i, acc) ==
    LET v == ParseValue(t, i)
        d == SkipSpace(t, v.next)
    IN  IF ~v.ok \/ d > Len(t) THEN ParseFail
        ELSE IF t[d] = "]" THEN Parsed(JArray(Append(acc, v.val)), d + 1)
        ELSE IF t[d] = "," THEN ParseElements(t, d + 1, Append(acc, v.val))
        ELSE ParseFail

\* The item a text is read as, NULL for a text that is no JSON.
ParseJson(t) ==
    LET r == ParseValue(t, 1)
    IN  IF r.ok /\ SkipSpace(t, r.next) = Len(t) + 1 THEN Ptr(r.val) ELSE NULL

\* t holds e as a run of consecutive characters.
Contains(t, e) ==
    \E k \in 0..(Len(t) - Len(e)) : SubSeq(t, k + 1, k + Len(e)) = e

\* Inside a string literal with content t there is a quote that would end it
\* or a raw newline, carriage return or tab (a backslash takes the character
\* after it).
RECURSIVE HasRaw(_)
HasRaw(t) ==
    IF t = <<>> THEN FALSE
    ELSE IF Head(t) = "\\" THEN Len(t) >= 2 /\ HasRaw(SubSeq(t, 3, Len(t)))
    ELSE Head(t) \in {"\"", "\n", "\r", "\t"} \/ HasRaw(Tail(t))

\* A call that went through to the transport, and the request it posted.
Posted == HasCall /\ ~Last.aborted /\ SentBy(Last) # <<>>

LastRequest == SentBy(Last)[1]

\* The strings the last call handed to escape_json_string.
EscapedBy(c) ==
    IF c.op = "read_tags" THEN {Deref(c.arg.tag_names)[i] : i \in 1..c.arg.count}
    ELSE IF c.op = "write_tags"
    THEN {Deref(c.arg.tags)[i].name : i \in 1..c.arg.count}
         \cup {Deref(c.arg.tags)[i].value : i \in 1..c.arg.count}
    ELSE IF c.op = "browse" /\ c.arg # NULL THEN {Deref(c.arg)}
    ELSE {}

\* C11: for every string a read, write or browse hands to
\* escape_json_string, over the double quote, backslash, newline, carriage
\* return, tab and ordinary characters, the escaped text is what the request
\* carries, it decodes as the content of a JSON string literal to the
\* original string, and it holds no quote that would end the literal and no
\* raw newline, carriage return or tab; a browse's body, where the text
\* stands between quotes, parses to the path it was given.
C11_EscapeRoundTrip ==
    Posted
        => /\ \A str \in EscapedBy(Last) :
                 LET escaped == escape_json_string(str)
                 IN  /\ JsonStringDecode(escaped) = str
                     /\ ~HasRaw(escaped)
                     /\ Contains(Deref(LastRequest.text), escaped)
           /\ (Last.op = "browse" /\ Last.arg # NULL)
                 => cJSON_GetArrayItem(
                        cJSON_GetObjectItem(
                            cJSON_GetObjectItem(ParseJson(LastRequest.body),
                                                <<"v", "a", "r", "i", "a", "b", "l", "e", "s">>),
                            <<"n", "a", "m", "e", "F", "i", "l", "t", "e", "r", "s">>),
                        1) = Ptr(JString(Deref(Last.arg)))

\* C11's case: a write whose value is a quote, a backslash and a newline,
\* posted with the six characters that escape them.
C11_Witness ==
    /\ Posted
    /\ Last.op = "write_tags"
    /\ Deref(Last.arg.tags)[1].value = <<"\"", "\\", "\n">>
    /\ Contains(Deref(LastRequest.text), <<"\\", "\"", "\\", "\\", "\\", "n">>)

\* The inner "value" member of the one element a read was answered with.
AnsweredValue ==
    cJSON_GetObjectItem(
        cJSON_GetObjectItem(
            cJSON_GetArrayItem(DataMember(Last.response, "tagValues"), 1),
            "value"),
        "value")

\* C12 (as claimed): a value that arrives as a string is returned as it is,
\* a boolean as "true" or "false", and an integer-valued number n as the
\* plain decimal digits of n, which read back give n, for numbers of seven
\* and more digits too.
C12_ValueNormalized ==
    (ReadReturned /\ Deref(Last.ret).count = 1 /\ AnsweredValue # NULL)
        => LET v == Deref(AnsweredValue)
               got == Deref(Last.ret).items[1].value
           IN  /\ got # NULL
               /\ v.type = "String" => Deref(got) = v.valuestring
               /\ v.type = "True" => Deref(got) = <<"t", "r", "u", "e">>
               /\ v.type = "False" => Deref(got) = <<"f", "a", "l", "s", "e">>
               /\ v.type = "Number"
                     => /\ Deref(got) = FormatLd(v.valuedouble)
                        /\ IsInteger(Deref(got))
                        /\ IntegerValue(Deref(got)) = v.valuedouble

\* The operations of the Domain API that return an error value, and those
\* that return a collection.
ErrorOps == {"connect", "acknowledge_alarm"}

CollectionOps == {"read_tags", "write_tags", "browse", "get_active_alarms"}

\* Call k went to the transport and was answered with a body that is no JSON.
AnsweredNoJson(k) ==
    /\ SentBy(hist[k]) # <<>>
    /\ hist[k].response # NULL
    /\ cJSON_Parse(Deref(hist[k].response).json_string) = NULL

\* C13 (as claimed): every operation of the Domain API whose answer is no
\* valid JSON returns an error value of kind ParseError to its caller, no
\* collection, and leaves the session as it was.
C13_ParseErrorValue ==
    \A k \in 1..Len(hist) :
        (hist[k].op \in ErrorOps \cup CollectionOps /\ AnsweredNoJson(k))
            => /\ hist[k].ret # NULL
               /\ Deref(hist[k].ret) = Error("PARSE_ERROR", "Invalid JSON response")
               /\ PostSession(k) = hist[k].pre

\* The operations that leave the session to connect and disconnect.
DomainOps == CollectionOps \cup {"acknowledge_alarm"}

\* C14: token, session id and header list are changed by connect and
\* disconnect only: a read, a write, a browse, an alarm list and an
\* acknowledgement leave all three as they found them, whether the call was
\* rejected, met a transport failure or a body that is no JSON, or returned
\* results, with per-item errors or without.
C14_SessionFrame ==
    \A k \in 1..Len(hist) :
        (hist[k].op \in DomainOps /\ ~hist[k].aborted)
            => /\ PostSession(k).token = hist[k].pre.token
               /\ PostSession(k).session_id = hist[k].pre.session_id
               /\ PostSession(k).headers = hist[k].pre.headers

\* C14's case: a connected client whose read met a transport failure and
\* which holds its token, session id and Authorization header after it.
C14_Witness ==
    /\ Len(hist) = 2
    /\ ConnectOk(1)
    /\ hist[2].op = "read_tags"
    /\ SentBy(hist[2]) # <<>>
    /\ hist[2].response = TransportFail
    /\ token = Ptr("t1")
    /\ session_id = Ptr("t1")
    /\ HasAuthorization(headers)

\* The document each operation posts.
QueryOf(op) ==
    CASE op = "connect" -> "Login"
      [] op \in {"disconnect", "client_free"} -> "Logout"
      [] op = "read_tags" -> "TagValues"
      [] op = "write_tags" -> "WriteTagValues"
      [] op = "browse" -> "Browse"
      [] op = "get_active_alarms" -> "activeAlarms"
      [] op = "acknowledge_alarm" -> "AcknowledgeAlarms"

\* The arguments of call c are the ones its operation rejects.
Rejected(c) ==
    \/ c.op \in {"read_tags", "write_tags"} /\ (ArgList(c) = NULL \/ c.arg.count = 0)
    \/ c.op = "acknowledge_alarm" /\ c.arg = NULL

\* C15: connect, read, write, browse, alarm list and acknowledgement each post
\* exactly one request, their own, when their arguments are accepted and none
\* when they are rejected; the wire holds the requests of the calls in call
\* order and nothing else, so no call logs in, logs out or posts again on
\* the side.
C15_SingleRoundTrip ==
    /\ \A k \in 1..Len(hist) :
          (hist[k].op \in ErrorOps \cup CollectionOps /\ ~hist[k].aborted)
              => /\ Len(SentBy(hist[k])) = IF Rejected(hist[k]) THEN 0 ELSE 1
                 /\ \A n \in 1..Len(SentBy(hist[k])) :
                       SentBy(hist[k])[n].query = QueryOf(hist[k].op)
    /\ \A k \in 1..Len(hist) :
          hist[k].wire0 = IF k = 1 THEN 0 ELSE hist[k - 1].wire1
    /\ Len(wire) = IF hist = <<>> THEN 0 ELSE Last.wire1

\* C15's case: a browse on a client that never connected, answered by a
\* transport failure, with the one Browse request as the whole wire.
C15_Witness ==
    /\ Len(hist) = 1
    /\ Last.op = "browse"
    /\ Last.response = TransportFail
    /\ Len(wire) = 1
    /\ wire[1].query = "Browse"

\* Call k was answered with JSON that lacks "data" or the member its
\* operation reads.
AnsweredWithout(k, member) ==
    /\ SentBy(hist[k]) # <<>>
    /\ hist[k].response # NULL
    /\ cJSON_Parse(Deref(hist[k].response).json_string) # NULL
    /\ DataMember(hist[k].response, member) = NULL

MemberOf(op) ==
    CASE op = "read_tags" -> "tagValues"
      [] op = "write_tags" -> "writeTagValues"
      [] op = "browse" -> "browse"
      [] op = "get_active_alarms" -> "activeAlarms"
      [] op = "acknowledge_alarm" -> "acknowledgeAlarms"

\* C17: an answer that parses but lacks "data", or lacks the operation's
\* member of it, is no results: a read, a write, a browse and an alarm list
\* return a collection with count 0 and no items, an acknowledgement returns
\* no error, and the session stays as it was.
C17_MissingIsNoResults ==
    \A k \in 1..Len(hist) :
        (hist[k].op \in DomainOps /\ AnsweredWithout(k, MemberOf(hist[k].op)))
            => /\ hist[k].op \in CollectionOps
                     => /\ hist[k].ret # NULL
                        /\ Deref(hist[k].ret).count = 0
                        /\ Deref(hist[k].ret).items = <<>>
               /\ hist[k].op = "acknowledge_alarm" => hist[k].ret = NULL
               /\ PostSession(k) = hist[k].pre

\* C17's case: a connected client whose read is answered {"data":{}} and
\* returns a collection of nothing, the session kept.
C17_Witness ==
    /\ Len(hist) = 2
    /\ ConnectOk(1)
    /\ hist[2].op = "read_tags"
    /\ hist[2].response = DataBody(NoFields)
    /\ hist[2].ret = Ptr([count |-> 0, items |-> <<>>])
    /\ token = Ptr("t1")

\* The keys of the request body and of the variables, as a parser reads them.
KeyQuery == <<"q", "u", "e", "r", "y">>

KeyVariables == <<"v", "a", "r", "i", "a", "b", "l", "e", "s">>

\* The variables object a read or write is meant to post: the names, or the
\* name/value pairs, it was called with, in the order of the call.
ExpectedVariables(c) ==
    IF c.op = "read_tags"
    THEN JObject(<<"n", "a", "m", "e", "s">>
                 :> JArray([i \in 1..c.arg.count |-> JString(Deref(c.arg.tag_names)[i])]))
    ELSE JObject(<<"i", "n", "p", "u", "t">>
                 :> JArray([i \in 1..c.arg.count |->
                       JObject((<<"n", "a", "m", "e">> :> JString(Deref(c.arg.tags)[i].name))
                               @@ (<<"v", "a", "l", "u", "e">>
                                   :> JString(Deref(c.arg.tags)[i].value)))]))

\* C16 (as claimed): the body a read or a write posts is a JSON object with
\* a string "query" and an object "variables" whose names array (input array
\* of name/value objects) is the list the call was given, in its order; and
\* a body has a "variables" member exactly when its operation passes
\* variables.
C16_BodyWellFormed ==
    /\ (Posted /\ Last.op \in {"read_tags", "write_tags"})
          => LET json == ParseJson(LastRequest.body)
             IN  /\ json # NULL
                 /\ cJSON_IsString(cJSON_GetObjectItem(json, KeyQuery))
                 /\ cJSON_GetObjectItem(json, KeyVariables) = Ptr(ExpectedVariables(Last))
    /\ \A n \in 1..Len(wire) :
          LET json == ParseJson(wire[n].body)
          IN  /\ json # NULL
              /\ wire[n].text = NULL <=> cJSON_GetObjectItem(json, KeyVariables) = NULL

\* The Authorization lines in a header list.
AuthorizationsOf(hs) == SelectSeq(hs, LAMBDA h : h.name = "Authorization")

\* The token of the last connect up to call k that succeeded with a token,
\* NULL when there was none since the handle was created.
RECURSIVE LastLoginToken(_)
LastLoginToken(k) ==
    IF k = 0 \/ hist[k].op = "client_free" THEN NULL
    ELSE IF ConnectOk(k) THEN Ptr(GotToken(k))
    ELSE LastLoginToken(k - 1)

\* C18 (as claimed): a request posted after a successful connect carries
\* exactly one Authorization header, Bearer and the token of the most recent
\* successful login; after a reconnect no request carries the earlier token.
C18_OneCurrentBearer ==
    \A k \in 1..Len(hist) : \A n \in 1..Len(SentBy(hist[k])) :
        LastLoginToken(k - 1) # NULL
            => AuthorizationsOf(SentBy(hist[k])[n].headers)
                  = <<Header("Authorization", Bearer(Deref(LastLoginToken(k - 1))))>>

\* C19 (as claimed): the header list holds an Authorization line exactly
\* when the client holds a token; a request posted by a client that holds no
\* token, as after a disconnect, carries no bearer token.
C19_AuthorizationIffToken ==
    /\ alive => (HasAuthorization(headers) <=> token # NULL)
    /\ \A k \in 1..Len(hist) : \A n \in 1..Len(SentBy(hist[k])) :
          hist[k].pre.token = NULL => ~HasAuthorization(SentBy(hist[k])[n].headers)

\* The bytes the array text of call c takes with its terminator, and the
\* bytes malloc'ed for it.
ArrayBytes(c) ==
    IF c.op = "read_tags"
    THEN Len(read_tags_array(Deref(c.arg.tag_names), c.arg.count)) + 1
    ELSE Len(write_tags_array(Deref(c.arg.tags), c.arg.count)) + 1

BlockBytes(c) ==
    IF c.op = "read_tags" THEN read_tags_allocated(c.arg.count)
    ELSE write_tags_allocated(c.arg.count)

\* C20 (as claimed): the array text a read or a write assembles, with its
\* terminator, never takes more bytes than were allocated for it (256 per
\* name, 512 per pair), whatever the count and the lengths, entries cut to
\* 511 characters included; so no call ends in a write past the block.
C20_ArrayFitsBlock ==
    (HasCall /\ Last.op \in {"read_tags", "write_tags"} /\ ~Rejected(Last))
        => /\ ArrayBytes(Last) <= BlockBytes(Last)
           /\ ~Last.aborted


\* ---------------------------------------------------------- response buffer

\* The bytes of the chunks write_callback was invoked with, the first n of
\* them, in arrival order.
RECURSIVE Received(_)
Received(n) == IF n = 0 THEN <<>> ELSE Received(n - 1) \o chunks[n].contents

\* The buffer holds a C string of its size: a block, the terminator at index
\* size, inside the block.
Terminated(buf) ==
    /\ buf.data # NULL
    /\ buf.size < Len(Deref(buf.data))
    /\ Deref(buf.data)[buf.size + 1] = NUL

\* The buffer's first size bytes are the given text.
Holds(buf, text) ==
    /\ buf.data # NULL
    /\ buf.size = Len(text)
    /\ buf.size <= Len(Deref(buf.data))
    /\ SubSeq(Deref(buf.data), 1, buf.size) = text

\* No invocation lowered the capacity.
CapacityNeverDecreases ==
    \A i \in 1..Len(chunks) : chunks[i].capacity1 >= chunks[i].capacity0

\* C21: after every invocation of write_callback, whatever the chunks' sizes
\* (zero among them), size < capacity, the byte at index size is the
\* terminator, the first size bytes are the chunks received so far in
\* arrival order, and the capacity has never decreased.
C21_BufferInvariant ==
    chunks # <<>> =>
        /\ response_buffer.size < response_buffer.capacity
        /\ Terminated(response_buffer)
        /\ Holds(response_buffer, Received(Len(chunks)))
        /\ CapacityNeverDecreases

\* What does hold after every invocation: size < capacity, a capacity that
\* never decreased and, while every realloc was granted, a block of capacity
\* bytes with the chunks and their terminator.
BufferInvariantWhileGranted ==
    chunks # <<>> =>
        /\ response_buffer.size < response_buffer.capacity
        /\ CapacityNeverDecreases
        /\ transfer_goes_on =>
              /\ Terminated(response_buffer)
              /\ Len(Deref(response_buffer.data)) = response_buffer.capacity
              /\ Holds(response_buffer, Received(Len(chunks)))

\* What a refused realloc leaves: no block, the raised capacity, the size of
\* before, the chunk not stored, and the callback's 0.
RefusedRealloc ==
    ~transfer_goes_on =>
        LET last == chunks[Len(chunks)]
        IN  /\ response_buffer.data = NULL
            /\ last.ret = 0 /\ last.real_size > 0
            /\ last.capacity1 = 2 * (response_buffer.size + last.real_size)
            /\ response_buffer.size = Len(Received(Len(chunks) - 1))

====
